---- MODULE Spec2Model ----
(***************************************************************************)
(* Excel-to-JSON worker (irshadnazree/xlsx-to-json).                       *)
(*                                                                         *)
(* The repository holds four variants of one fetch handler:                *)
(*   "simple"  src/src/index.ts            method + file checks, no catch  *)
(*   "single"  src/unnamed/part_001:1-76   XLSX only, rows-as-arrays       *)
(*   "arrays"  src/unnamed/part_000        XLSX/XLS, rows-as-arrays        *)
(*   "objects" src/unnamed/part_001:78-214 XLSX/XLS, rows-as-objects       *)
(* The handler is modelled as a state machine whose steps are the          *)
(* segments between its suspension points (await request.formData(),       *)
(* await file.arrayBuffer()); formatExcelData is modelled as an operator.  *)
(*                                                                         *)
(* Values.  A JavaScript string is a sequence of one-character strings.    *)
(* A cell is a record [t, v]: t is the JavaScript type of the value and v  *)
(* its textual form, so that String(cell) loses the type but keeps the     *)
(* text.  A JavaScript object is a function from its keys to its values.   *)
(***************************************************************************)
EXTENDS Integers, Sequences, FiniteSets, TLC

-----------------------------------------------------------------------------
(* Bounds of the model *)

\* a decoded sheet given to formatExcelData has at most MaxRows rows ...
MaxRows == 3
\* ... and at most MaxCells cells over all its rows
MaxCells == 4
\* the sheets the decoder hands back inside the handler are smaller
MaxDecRows == 2
MaxDecCells == 2
\* the number of requests in flight at once
NumReqs == 2

-----------------------------------------------------------------------------
(* Cell values *)

StrA == <<"a">>
StrSpA == <<" ", "a">>
StrEmpty == <<>>

CellA == [t |-> "string", v |-> StrA]
CellSpA == [t |-> "string", v |-> StrSpA]
CellEmptyStr == [t |-> "string", v |-> StrEmpty]
CellZero == [t |-> "number", v |-> <<"0">>]
CellFalse == [t |-> "boolean", v |-> <<"f", "a", "l", "s", "e">>]
CellNull == [t |-> "null", v |-> <<"n", "u", "l", "l">>]
\* what reading an array index past its length (or a hole) yields
Undefined == [t |-> "undefined", v |-> <<"u", "n", "d", "e", "f", "i", "n", "e", "d">>]

\* the values sheet_to_json(header: 1, defval: null, raw: true) puts in a row
Cells == {CellA, CellSpA, CellEmptyStr, CellZero, CellFalse, CellNull}

RECURSIVE Sum(_)
Sum(lens) == IF lens = <<>> THEN 0 ELSE Head(lens) + Sum(Tail(lens))

\* the row lengths of the sheets of at most r rows holding at most n cells in all
Shapes(r, n) == {lens \in UNION {[1..k -> 0..n] : k \in 0..r} : Sum(lens) <= n}

\* the sheet (any[][]) whose rows have the lengths lens and whose cells, read
\* row by row, are flat
RECURSIVE Rows(_, _)
Rows(lens, flat) ==
    IF lens = <<>> THEN <<>>
    ELSE <<SubSeq(flat, 1, Head(lens))>>
         \o Rows(Tail(lens), SubSeq(flat, Head(lens) + 1, Len(flat)))

-----------------------------------------------------------------------------
(* JavaScript primitives used by formatExcelData *)

\* array[i] with a 0-based index: undefined past the end
At(arr, i) == IF i + 1 \in DOMAIN arr THEN arr[i + 1] ELSE Undefined

\* String(value)
String(c) == c.v

IsSpace(ch) == ch \in {" ", "\t", "\n", "\r"}

RECURSIVE TrimStart(_)
TrimStart(s) ==
    IF s # <<>> /\ IsSpace(Head(s)) THEN TrimStart(Tail(s)) ELSE s

RECURSIVE TrimEnd(_)
TrimEnd(s) ==
    IF s # <<>> /\ IsSpace(s[Len(s)]) THEN TrimEnd(SubSeq(s, 1, Len(s) - 1)) ELSE s

\* String.prototype.trim
Trim(s) == TrimEnd(TrimStart(s))

\* x || null instead: every falsy value becomes null
OrNull(x) ==
    IF x.t \in {"undefined", "null"} \/ x \in {CellZero, CellFalse, CellEmptyStr}
    THEN CellNull ELSE x

\* x ?? null : only undefined and null become null
Coalesce(x) == IF x.t \in {"undefined", "null"} THEN CellNull ELSE x

\* {}
EmptyObject == [k \in {} |-> k]

\* a key already there keeps its first value
PutIfAbsent(obj, k, v) == [y \in DOMAIN obj \cup {k} |-> IF y \in DOMAIN obj THEN obj[y] ELSE v]

\* obj[k] = v
Put(obj, k, v) == [y \in DOMAIN obj \cup {k} |-> IF y = k THEN v ELSE obj[y]]

\* new Array(n): n holes
NewArray(n) == [i \in 1..n |-> Undefined]
\* arr[i] = v with a 0-based index inside the array
SetAt(arr, i, v) == [arr EXCEPT ![i + 1] = v]

-----------------------------------------------------------------------------
(* formatExcelData, src/unnamed/part_001:108-142 *)

\* for (let i = 0; i < headersRow.length; i++) headers[i] = String(headersRow[i]).trim()
RECURSIVE HeadersLoop(_, _, _)
HeadersLoop(headersRow, headers, i) ==
    IF i < Len(headersRow)
    THEN HeadersLoop(headersRow, SetAt(headers, i, Trim(String(At(headersRow, i)))), i + 1)
    ELSE headers

\* the column loop bounded by the row's own width: nothing is null-filled
RECURSIVE ColumnsLoopRowWidth(_, _, _, _, _)
ColumnsLoopRowWidth(headers, cols, currentRow, rowObject, colIndex) ==
    IF colIndex < cols /\ colIndex < Len(currentRow)
    THEN ColumnsLoopRowWidth(headers, cols, currentRow,
                             Put(rowObject, At(headers, colIndex),
                                 Coalesce(At(currentRow, colIndex))),
                             colIndex + 1)
    ELSE rowObject

\* the column loop run over the wider of the header row and the row: a cell
\* past the headers is stored under String(undefined)
RECURSIVE ColumnsLoopWidest(_, _, _, _, _)
ColumnsLoopWidest(headers, cols, currentRow, rowObject, colIndex) ==
    IF colIndex < cols \/ colIndex < Len(currentRow)
    THEN ColumnsLoopWidest(headers, cols, currentRow,
                           Put(rowObject,
                               IF colIndex < cols THEN At(headers, colIndex)
                               ELSE String(Undefined),
                               Coalesce(At(currentRow, colIndex))),
                           colIndex + 1)
    ELSE rowObject

\* for (let colIndex = 0; colIndex < cols; colIndex++)
\*     rowObject[headers[colIndex]] = currentRow[colIndex] ?? null
RECURSIVE ColumnsLoop(_, _, _, _, _)
ColumnsLoop(headers, cols, currentRow, rowObject, colIndex) ==
    IF colIndex < cols
    THEN ColumnsLoop(headers, cols, currentRow,
                     Put(rowObject, At(headers, colIndex), Coalesce(At(currentRow, colIndex))),
                     colIndex + 1)
    ELSE rowObject

\* the index of result that the row at rowIndex is stored at
ResultIndex(rowIndex) == rowIndex - 1

\* for (let rowIndex = 1; rowIndex < data.length; rowIndex++) ... result[rowIndex - 1] = rowObject
RECURSIVE RowsLoop(_, _, _, _, _)
RowsLoop(data, headers, cols, result, rowIndex) ==
    IF rowIndex < Len(data)
    THEN RowsLoop(data, headers, cols,
                  SetAt(result, ResultIndex(rowIndex),
                        ColumnsLoop(headers, cols, At(data, rowIndex), EmptyObject, 0)),
                  rowIndex + 1)
    ELSE result

\* the header row counted as a data row
RowCountWithHeader(data) == Len(data)

\* const rows = data.length - 1
RowCount(data) == Len(data) - 1

\* the wrapper record returned for a sheet without rows as well
formatExcelDataAlwaysWrapped(data) ==
    IF Len(data) = 0 THEN [data |-> <<>>, totalRows |-> 0, totalColumns |-> 0]
    ELSE LET headersRow == At(data, 0)
             headers == HeadersLoop(headersRow, NewArray(Len(headersRow)), 0)
             rows == RowCount(data)
             cols == Len(headers)
             result == RowsLoop(data, headers, cols, NewArray(rows), 1)
         IN [data |-> result, totalRows |-> rows, totalColumns |-> cols]

\* if (data.length === 0) return {}; ...; return {data: result, totalRows: rows, totalColumns: cols}
formatExcelData(data) ==
    IF Len(data) = 0 THEN EmptyObject
    ELSE LET headersRow == At(data, 0)
             headers == HeadersLoop(headersRow, NewArray(Len(headersRow)), 0)
             rows == RowCount(data)
             cols == Len(headers)
             result == RowsLoop(data, headers, cols, NewArray(rows), 1)
         IN [data |-> result, totalRows |-> rows, totalColumns |-> cols]

-----------------------------------------------------------------------------
(* Configuration of the four variants of the handler *)

Variants == {"simple", "single", "arrays", "objects"}

\* const MAX_FILE_SIZE = 5 * 1024 * 1024
MAX_FILE_SIZE == 5 * 1024 * 1024

XLSX_MIME_TYPE == "application/vnd.openxmlformats-officedocument.spreadsheetml.sheet"
XLS_MIME_TYPE == "application/vnd.ms-excel"

\* EXCEL_MIME_TYPES = {xlsx: ..., xls: ...}
EXCEL_MIME_TYPES == [xlsx |-> XLSX_MIME_TYPE, xls |-> XLS_MIME_TYPE]

\* the variants whose handler body is inside try { ... } catch (error) { ... }
HasCatch(v) == v # "simple"

\* the variants that check file.size and file.type
ChecksSizeAndType(v) == v # "simple"

\* a Response: its status, its text body or its JSON body (<<>> when there is
\* none, <<value>> otherwise) and its headers
Resp(status, body) == [status |-> status, body |-> body, json |-> <<>>, headers |-> EmptyObject]
NoResponse == Resp(0, "")

\* the method rejection of the later variants given by every variant
MethodNot405(v) == Resp(405, "Method Not Allowed")

\* new Response('...', {status: ...}) of the method check
MethodRejection(v) ==
    IF v = "simple" THEN Resp(400, "Send an XLSX file via POST")
    ELSE Resp(405, "Method Not Allowed")

\* new Response('...', {status: 400}) of the file check
UploadRejection(v) ==
    IF v = "simple" THEN Resp(400, "No file uploaded or invalid file")
    ELSE Resp(400, "Invalid file upload")

\* new Response(`File exceeds ${MAX_FILE_SIZE / 1024 / 1024}MB limit`, {status: 413})
SizeRejection ==
    Resp(413, "File exceeds " \o ToString((MAX_FILE_SIZE \div 1024) \div 1024) \o "MB limit")

\* new Response('Invalid file type. ...', {status: 400})
TypeRejection(v) ==
    IF v = "single" THEN Resp(400, "Invalid file type. Please upload an XLSX file")
    ELSE Resp(400, "Invalid file type. Please upload an Excel file (XLSX or XLS)")

\* new Response('Error processing ... file', {status: 500}) of the catch block
ErrorResponse(v) ==
    IF v = "single" THEN Resp(500, "Error processing XLSX file")
    ELSE Resp(500, "Error processing Excel file")

\* the limit itself rejected as well
SizeAtLeastLimit(size) == size >= MAX_FILE_SIZE

\* file.size > MAX_FILE_SIZE
ExceedsLimit(size) == size > MAX_FILE_SIZE

\* the legacy binary type forgotten
OnlyXlsxType(v, mimeType) == mimeType = XLSX_MIME_TYPE

\* isValidExcelType(file.type); file.type !== XLSX_MIME_TYPE negated, in "single"
isValidExcelType(v, mimeType) ==
    IF v = "single" THEN mimeType = XLSX_MIME_TYPE
    ELSE EXCEL_MIME_TYPES.xlsx = mimeType \/ EXCEL_MIME_TYPES.xls = mimeType

-----------------------------------------------------------------------------
(* Requests *)

Methods == {"GET", "PUT", "POST"}

\* what formData.get('file') finds: "noForm" is a body request.formData() cannot
\* parse, "noField" a form without the field, "text" a plain text field,
\* "file" a File
Bodies == {"noForm", "noField", "text", "file"}

FileSizes == {0, MAX_FILE_SIZE - 1, MAX_FILE_SIZE, MAX_FILE_SIZE + 1, 6 * 1024 * 1024}
FileTypes == {XLSX_MIME_TYPE, XLS_MIME_TYPE, "text/plain", ""}

Requests ==
    [method : Methods, body : Bodies \ {"file"}, size : {0}, type : {""}]
    \cup [method : Methods, body : {"file"}, size : FileSizes, type : FileTypes]

\* what the exception thrown by request.formData() or by read() says
FormDataCause == "Unrecognized Content-Type header value"
DecodeCauses == {"Unsupported file", "Unknown error"}

\* the values of the X-Processing-Time header
ProcessingTimes == {"0.00ms", "1.25ms"}

-----------------------------------------------------------------------------
(* The checks between the two suspension points, lines 160-172 *)

Pass == [passed |-> TRUE, response |-> NoResponse]
Reject(r) == [passed |-> FALSE, response |-> r]

\* the size and type checks the other way round
ValidateTypeFirst(v, req) ==
    IF req.body # "file" THEN Reject(UploadRejection(v))
    ELSE IF ChecksSizeAndType(v) /\ ~isValidExcelType(v, req.type) THEN Reject(TypeRejection(v))
    ELSE IF ChecksSizeAndType(v) /\ ExceedsLimit(req.size) THEN Reject(SizeRejection)
    ELSE Pass

\* no size and type checks at all
ValidateFileOnly(v, req) ==
    IF req.body # "file" THEN Reject(UploadRejection(v)) ELSE Pass

\* if (!file || !(file instanceof File)) ...; if (file.size > MAX_FILE_SIZE) ...;
\* if (!isValidExcelType(file.type)) ...
Validate(v, req) ==
    IF req.body # "file" THEN Reject(UploadRejection(v))
    ELSE IF ChecksSizeAndType(v) /\ ExceedsLimit(req.size) THEN Reject(SizeRejection)
    ELSE IF ChecksSizeAndType(v) /\ ~isValidExcelType(v, req.type) THEN Reject(TypeRejection(v))
    ELSE Pass

\* the headers of the 200 response
SuccessHeaders(v, req, time) ==
    LET ct == Put(EmptyObject, "Content-Type", "application/json")
    IN CASE v = "simple" -> ct
         [] v = "arrays" -> Put(Put(ct, "X-Processing-Time", time), "X-File-Type", req.type)
         [] OTHER -> Put(ct, "X-Processing-Time", time)

\* a value given to JSON.stringify, with what it is serialized as: an object
\* {...} or an array [...]
ObjectJson(value) == [type |-> "object", value |-> value]
ArrayJson(value) == [type |-> "array", value |-> value]

\* the value given to JSON.stringify: the rows themselves, formatExcelData of
\* them, or (in "simple") the library's own header-keyed projection
SuccessJson(v, rawData) ==
    CASE v = "objects" -> ObjectJson(formatExcelData(rawData))
      [] v = "simple" -> ArrayJson([projectedBy |-> "sheet_to_json", rows |-> rawData])
      [] OTHER -> ArrayJson(rawData)

\* new Response(JSON.stringify(jsonData), {headers: {...}})
Success(v, req, rawData, time) ==
    [status |-> 200, body |-> "", json |-> <<SuccessJson(v, rawData)>>,
     headers |-> SuccessHeaders(v, req, time)]

-----------------------------------------------------------------------------
(* The handler *)

VARIABLES
    variant,           \* which of the four handlers runs
    request,           \* the request given to fetch
    pc,                \* "start", "awaitFormData", "awaitArrayBuffer", "done"
    response,          \* the Response fetch resolved with
    responses,         \* how many Responses fetch returned
    escaped,           \* the exception fetch rejected with, "" when none
    raised,            \* the exception raised inside the handler, "" when none
    log,               \* what console.error was given
    formDataCalls,     \* calls of request.formData()
    arrayBufferCalls,  \* calls of file.arrayBuffer()
    readCalls,         \* calls of the decoder, read()
    decoded            \* <<rows>> once the decoder has given the rows, <<>> before

hvars == <<variant, request, pc, response, responses, escaped, raised, log,
           formDataCalls, arrayBufferCalls, readCalls, decoded>>

HandlerInit ==
    /\ variant \in Variants
    /\ request \in Requests
    /\ pc = "start"
    /\ response = NoResponse
    /\ responses = 0
    /\ escaped = ""
    /\ raised = ""
    /\ log = <<>>
    /\ formDataCalls = 0
    /\ arrayBufferCalls = 0
    /\ readCalls = 0
    /\ decoded = <<>>

\* return new Response(...)
Return(r) ==
    /\ response' = r
    /\ responses' = responses + 1
    /\ pc' = "done"

\* an exception with the message cause is thrown inside the handler: the
\* catch block logs it and answers 500; without a catch block it leaves fetch
Throw(cause) ==
    /\ raised' = cause
    /\ IF HasCatch(variant)
       THEN /\ log' = Append(log, "Processing error: " \o cause)
            /\ Return(ErrorResponse(variant))
            /\ UNCHANGED escaped
       ELSE /\ escaped' = cause
            /\ pc' = "done"
            /\ UNCHANGED <<log, response, responses>>

\* if (request.method !== 'POST') return new Response(...)
RejectMethod ==
    /\ pc = "start"
    /\ request.method # "POST"
    /\ Return(MethodRejection(variant))
    /\ UNCHANGED <<decoded, variant, request, escaped, raised, log,
                   formDataCalls, arrayBufferCalls, readCalls>>

\* const formData = await request.formData(), up to the suspension
CallFormData ==
    /\ pc = "start"
    /\ request.method = "POST"
    /\ formDataCalls' = formDataCalls + 1
    /\ pc' = "awaitFormData"
    /\ UNCHANGED <<decoded, variant, request, response, responses, escaped, raised, log,
                   arrayBufferCalls, readCalls>>

\* request.formData() rejects: the body is no form
FormDataRejects ==
    /\ pc = "awaitFormData"
    /\ request.body = "noForm"
    /\ Throw(FormDataCause)
    /\ UNCHANGED <<decoded, variant, request, formDataCalls, arrayBufferCalls, readCalls>>

\* request.formData() resolves and a check fails
RejectUpload ==
    /\ pc = "awaitFormData"
    /\ request.body # "noForm"
    /\ ~Validate(variant, request).passed
    /\ Return(Validate(variant, request).response)
    /\ UNCHANGED <<decoded, variant, request, escaped, raised, log,
                   formDataCalls, arrayBufferCalls, readCalls>>

\* request.formData() resolves, the checks pass:
\* const arrayBuffer = await file.arrayBuffer(), up to the suspension
CallArrayBuffer ==
    /\ pc = "awaitFormData"
    /\ request.body # "noForm"
    /\ Validate(variant, request).passed
    /\ arrayBufferCalls' = arrayBufferCalls + 1
    /\ pc' = "awaitArrayBuffer"
    /\ UNCHANGED <<decoded, variant, request, response, responses, escaped, raised, log,
                   formDataCalls, readCalls>>

\* read(...) or sheet_to_json(...) throws
ReadThrows ==
    /\ pc = "awaitArrayBuffer"
    /\ readCalls' = readCalls + 1
    /\ \E cause \in DecodeCauses : Throw(cause)
    /\ UNCHANGED <<decoded, variant, request, formDataCalls, arrayBufferCalls>>

\* read(...) and sheet_to_json(...) give the rows of the first sheet:
\* return new Response(JSON.stringify(jsonData), ...)
ReadReturns ==
    /\ pc = "awaitArrayBuffer"
    /\ readCalls' = readCalls + 1
    /\ \E lens \in Shapes(MaxDecRows, MaxDecCells) :
         \E flat \in [1..Sum(lens) -> Cells] :
           \E time \in ProcessingTimes :
             /\ decoded' = <<Rows(lens, flat)>>
             /\ Return(Success(variant, request, Rows(lens, flat), time))
    /\ UNCHANGED <<variant, request, escaped, raised, log,
                   formDataCalls, arrayBufferCalls>>

-----------------------------------------------------------------------------
(* The projector on its own: one sheet in, one result out *)

VARIABLES sheet, projected, pstate

pvars == <<sheet, projected, pstate>>


\* the projector at rest, while the handler runs
ProjIdle ==
    /\ sheet = <<>>
    /\ projected = EmptyObject
    /\ pstate = "idle"

\* the handler at rest, while the projector runs
HandlerIdle ==
    /\ variant = "objects"
    /\ request = [method |-> "POST", body |-> "file", size |-> 0, type |-> XLSX_MIME_TYPE]
    /\ pc = "idle"
    /\ response = NoResponse
    /\ responses = 0
    /\ escaped = ""
    /\ raised = ""
    /\ log = <<>>
    /\ formDataCalls = 0
    /\ arrayBufferCalls = 0
    /\ readCalls = 0
    /\ decoded = <<>>

ProjInit ==
    /\ \E lens \in Shapes(MaxRows, MaxCells) :
         \E flat \in [1..Sum(lens) -> Cells] : sheet = Rows(lens, flat)
    /\ projected = EmptyObject
    /\ pstate = "input"

\* const jsonData = formatExcelData(rawData)
Format ==
    /\ pstate = "input"
    /\ projected' = formatExcelData(sheet)
    /\ pstate' = "projected"
    /\ UNCHANGED sheet

-----------------------------------------------------------------------------
(* Several requests in flight: one call of fetch per request, each with its  *)
(* own parameter and locals, suspended and resumed in any order              *)

VARIABLES
    deployed,   \* the variant that is running
    inflight,   \* the parameter, locals and outcome of each call of fetch
    console     \* what console.error was given, by every call, in order

cvars == <<deployed, inflight, console>>

vars == <<hvars, pvars, cvars>>

Calls == 1..NumReqs

\* the requests sent while others are in flight
ConcRequests ==
    {r \in Requests : /\ r.method # "PUT"
                      /\ r.body # "text"
                      /\ r.size \in {0, 6 * 1024 * 1024}
                      /\ r.type \in {"", XLSX_MIME_TYPE, "text/plain"}}

\* the rows the decoder gives while others are in flight
ConcSheets == {<<>>, <<<<CellA>>, <<CellZero>>>>}

\* a call of fetch that has not run yet
Fresh(req) ==
    [request |-> req, pc |-> "start", response |-> NoResponse, responses |-> 0,
     escaped |-> "", raised |-> "", decoded |-> <<>>]

\* one frame for all calls, as module-level variables would be
SharedFrame(i) == 1

\* the frame a call reads its parameter request and its const file from: its own
Frame(i) == i

\* return new Response(...)
Returned(s, r) == [s EXCEPT !.response = r, !.responses = @ + 1, !.pc = "done"]

\* an exception is thrown inside the call: answered 500 by the catch block, or
\* leaving fetch
Thrown(v, s, cause) ==
    IF HasCatch(v)
    THEN [Returned(s, ErrorResponse(v)) EXCEPT !.raised = cause]
    ELSE [s EXCEPT !.raised = cause, !.escaped = cause, !.pc = "done"]

\* console.error(`Processing error: ...`) of the catch block
Logged(v, cause) ==
    IF HasCatch(v) THEN Append(console, "Processing error: " \o cause) ELSE console

ConcIdle ==
    /\ deployed = "objects"
    /\ inflight = <<>>
    /\ console = <<>>

ConcInit ==
    /\ deployed \in Variants
    /\ inflight \in [Calls -> {Fresh(req) : req \in ConcRequests}]
    /\ console = <<>>

\* the call runs from its start to return or to await request.formData()
ConcStart(i) ==
    /\ inflight[i].pc = "start"
    /\ inflight' =
         [inflight EXCEPT ![i] =
            IF inflight[Frame(i)].request.method # "POST"
            THEN Returned(@, MethodRejection(deployed))
            ELSE [@ EXCEPT !.pc = "awaitFormData"]]
    /\ UNCHANGED <<deployed, console>>

\* request.formData() rejects
ConcFormDataRejects(i) ==
    /\ inflight[i].pc = "awaitFormData"
    /\ inflight[Frame(i)].request.body = "noForm"
    /\ inflight' = [inflight EXCEPT ![i] = Thrown(deployed, @, FormDataCause)]
    /\ console' = Logged(deployed, FormDataCause)
    /\ UNCHANGED deployed

\* request.formData() resolves: the call runs to return or to await file.arrayBuffer()
ConcFormDataResolves(i) ==
    /\ inflight[i].pc = "awaitFormData"
    /\ inflight[Frame(i)].request.body # "noForm"
    /\ inflight' =
         [inflight EXCEPT ![i] =
            IF Validate(deployed, inflight[Frame(i)].request).passed
            THEN [@ EXCEPT !.pc = "awaitArrayBuffer"]
            ELSE Returned(@, Validate(deployed, inflight[Frame(i)].request).response)]
    /\ UNCHANGED <<deployed, console>>

\* file.arrayBuffer() resolves, read(...) or sheet_to_json(...) throws
ConcReadThrows(i) ==
    /\ inflight[i].pc = "awaitArrayBuffer"
    /\ \E cause \in DecodeCauses :
         /\ inflight' = [inflight EXCEPT ![i] = Thrown(deployed, @, cause)]
         /\ console' = Logged(deployed, cause)
    /\ UNCHANGED deployed

\* file.arrayBuffer() resolves, the rows are decoded and the call returns 200
ConcReadReturns(i) ==
    /\ inflight[i].pc = "awaitArrayBuffer"
    /\ \E rawData \in ConcSheets : \E time \in ProcessingTimes :
         inflight' =
           [inflight EXCEPT ![i] =
              Returned([@ EXCEPT !.decoded = <<rawData>>],
                       Success(deployed, inflight[Frame(i)].request, rawData, time))]
    /\ UNCHANGED <<deployed, console>>

-----------------------------------------------------------------------------
(* Specifications *)

Init == HandlerInit /\ ProjIdle /\ ConcIdle

Next ==
    \/ RejectMethod /\ UNCHANGED <<pvars, cvars>>
    \/ CallFormData /\ UNCHANGED <<pvars, cvars>>
    \/ FormDataRejects /\ UNCHANGED <<pvars, cvars>>
    \/ RejectUpload /\ UNCHANGED <<pvars, cvars>>
    \/ CallArrayBuffer /\ UNCHANGED <<pvars, cvars>>
    \/ ReadThrows /\ UNCHANGED <<pvars, cvars>>
    \/ ReadReturns /\ UNCHANGED <<pvars, cvars>>

\* one request handled by one of the variants
Spec == Init /\ [][Next]_vars

InitProj == ProjInit /\ HandlerIdle /\ ConcIdle

NextProj == Format /\ UNCHANGED <<hvars, cvars>>

\* formatExcelData applied to one sheet
SpecProj == InitProj /\ [][NextProj]_vars

InitConc == ConcInit /\ HandlerIdle /\ ProjIdle

NextConc ==
    \/ \E i \in Calls : ConcStart(i) /\ UNCHANGED <<hvars, pvars>>
    \/ \E i \in Calls : ConcFormDataRejects(i) /\ UNCHANGED <<hvars, pvars>>
    \/ \E i \in Calls : ConcFormDataResolves(i) /\ UNCHANGED <<hvars, pvars>>
    \/ \E i \in Calls : ConcReadThrows(i) /\ UNCHANGED <<hvars, pvars>>
    \/ \E i \in Calls : ConcReadReturns(i) /\ UNCHANGED <<hvars, pvars>>

\* NumReqs requests handled by one variant, their steps interleaved
SpecConc == InitConc /\ [][NextConc]_vars

-----------------------------------------------------------------------------
(* What a request fails, read off the request alone *)

Done == pc = "done"

FailsMethod == request.method # "POST"
FailsFile == request.body # "file"
FailsSize == request.body = "file" /\ request.size > 5 * 1024 * 1024
AcceptedTypes ==
    IF variant = "single" THEN {XLSX_MIME_TYPE} ELSE {XLSX_MIME_TYPE, XLS_MIME_TYPE}
FailsType == request.body = "file" /\ request.type \notin AcceptedTypes

Is(status, body) ==
    /\ escaped = ""
    /\ responses = 1
    /\ response.status = status
    /\ response.body = body
    /\ response.json = <<>>

IsMethodRejection ==
    IF variant = "simple" THEN Is(400, "Send an XLSX file via POST")
    ELSE Is(405, "Method Not Allowed")

IsUploadRejection ==
    IF variant = "simple" THEN Is(400, "No file uploaded or invalid file")
    ELSE Is(400, "Invalid file upload")

IsSizeRejection == Is(413, "File exceeds 5MB limit")

-----------------------------------------------------------------------------
(* C1: a request that fails several checks at once is answered with the      *)
(* rejection of the earliest failing check, in the order method, file,       *)
(* size, type: a non-POST request gets the method rejection whatever its     *)
(* body, and a POST whose file is too large and of an unaccepted type gets   *)
(* 413 (in the variants that check size and type).                           *)
C1_FirstFailureWins ==
    Done =>
      /\ (FailsMethod /\ (FailsFile \/ FailsSize \/ FailsType)) => IsMethodRejection
      /\ (variant # "simple" /\ ~FailsMethod /\ FailsSize /\ FailsType) => IsSizeRejection

C1_Witness ==
    /\ Done
    /\ variant = "objects"
    /\ request.method = "POST"
    /\ request.size = 6 * 1024 * 1024
    /\ request.type = "text/plain"
    /\ response.status = 413

(* C2: a request whose method is not POST is answered 405 'Method Not         *)
(* Allowed' (400 'Send an XLSX file via POST' in the simple variant),         *)
(* whatever its body, and neither the form parser nor the decoder is called.  *)
C2_NonPostRejected ==
    FailsMethod =>
      /\ formDataCalls = 0
      /\ arrayBufferCalls = 0
      /\ readCalls = 0
      /\ Done => IsMethodRejection

C2_Witness ==
    /\ Done
    /\ request.method = "GET"
    /\ request.body = "file"
    /\ request.type = XLSX_MIME_TYPE
    /\ response.status \in {400, 405}

(* C3: a POST request that carries no File under 'file' (no such field, a     *)
(* plain text field, or a body that is no form at all) is answered 400 with   *)
(* the invalid-upload text.                                                   *)
C3_NoFileRejected ==
    (Done /\ ~FailsMethod /\ FailsFile) => IsUploadRejection

(* C4: in the variants that configure a maximum size, a POST upload whose     *)
(* file is larger than 5 MiB is answered 413 'File exceeds 5MB limit'         *)
(* whatever its declared type, and a file of 5 MiB or less is never answered  *)
(* 413.                                                                       *)
C4_SizeLimit ==
    (Done /\ ~FailsMethod /\ request.body = "file") =>
      /\ (variant # "simple" /\ request.size > 5 * 1024 * 1024) => IsSizeRejection
      /\ request.size <= 5 * 1024 * 1024 => response.status # 413

C4_Witness ==
    /\ Done
    /\ variant # "simple"
    /\ request.method = "POST"
    /\ request.size = 5 * 1024 * 1024 + 1
    /\ request.type = XLSX_MIME_TYPE
    /\ response.status = 413

(* C5 as stated: a POST upload within the size limit whose declared type is   *)
(* outside the accepted set is answered 400 'Invalid file type. Please        *)
(* upload an Excel file (XLSX or XLS)', in the single-type variant too; a     *)
(* file of an accepted type is never rejected for its type.                   *)
C5_AsStated ==
    (Done /\ variant # "simple" /\ ~FailsMethod /\ request.body = "file" /\ ~FailsSize) =>
      /\ FailsType =>
           Is(400, "Invalid file type. Please upload an Excel file (XLSX or XLS)")
      /\ ~FailsType => response.status # 400

(* C5 amended: the text is 'Invalid file type. Please upload an XLSX file'    *)
(* in the single-type variant and the (XLSX or XLS) text in the two-type      *)
(* variants.                                                                  *)
C5_TypeRejected ==
    (Done /\ variant # "simple" /\ ~FailsMethod /\ request.body = "file" /\ ~FailsSize) =>
      /\ FailsType =>
           IF variant = "single"
           THEN Is(400, "Invalid file type. Please upload an XLSX file")
           ELSE Is(400, "Invalid file type. Please upload an Excel file (XLSX or XLS)")
      /\ ~FailsType => (response.status # 400 /\ arrayBufferCalls = 1)

C5_Witness ==
    /\ Done
    /\ variant = "objects"
    /\ request.method = "POST"
    /\ request.size = 5 * 1024 * 1024
    /\ request.type = "text/plain"
    /\ response.status = 400

(* C6: a failure after validation has passed is answered exactly once with    *)
(* 500 'Error processing Excel file', the body does not hold the cause, and   *)
(* no exception leaves the handler.                                           *)
C6_FailureIs500 ==
    (Done /\ arrayBufferCalls = 1 /\ raised # "") =>
      /\ Is(500, "Error processing Excel file")
      /\ response.body # raised

(* C7: no decoding for a rejected request: a 4xx response has seen neither    *)
(* file.arrayBuffer() nor the decoder, and both are called only after every   *)
(* check of the variant has passed (method and file; size and type as well    *)
(* in the variants that check them), the bytes before the decoder.            *)
C7_NoDecodeBeforeChecks ==
    /\ response.status \in 400..499 => (arrayBufferCalls = 0 /\ readCalls = 0)
    /\ readCalls > 0 => arrayBufferCalls > 0
    /\ arrayBufferCalls > 0 =>
         /\ ~FailsMethod
         /\ ~FailsFile
         /\ variant # "simple" => (~FailsSize /\ ~FailsType)

C7_Witness ==
    /\ Done
    /\ variant = "arrays"
    /\ request.method = "POST"
    /\ request.body = "file"
    /\ request.size = 6 * 1024 * 1024
    /\ response.status = 413
    /\ readCalls = 0

-----------------------------------------------------------------------------
(* The projection, stated without the loops *)

Projected == pstate = "projected"

\* the header strings of the sheet: row 0, each cell as a string, trimmed
HeaderOf(col) == Trim(String(sheet[1][col + 1]))
HeaderCount == Len(sheet[1])
HeaderCols == 0..(HeaderCount - 1)
DataRows == 1..(Len(sheet) - 1)

\* no later column has the header string of col
LastOfItsName(col) == \A later \in HeaderCols : later > col => HeaderOf(later) # HeaderOf(col)

\* the cell of sheet row r (0-based) at col, null when missing or empty
CellOrNull(r, col) ==
    IF col + 1 \in DOMAIN sheet[r + 1] /\ sheet[r + 1][col + 1].t # "null"
    THEN sheet[r + 1][col + 1]
    ELSE CellNull

\* the row-object of sheet row r: one entry per header string, holding the
\* cell of the last column of that name
RowObjectOf(r) ==
    [k \in {HeaderOf(col) : col \in HeaderCols} |->
        CellOrNull(r, CHOOSE col \in HeaderCols : HeaderOf(col) = k /\ LastOfItsName(col))]

(* C8: in rows-as-objects mode a sheet of N >= 1 rows projects to the record  *)
(* {data, totalRows, totalColumns} with totalRows = N-1, totalColumns = the   *)
(* number of cells of row 0, and data a sequence of N-1 row-objects in which  *)
(* data[i] is built from sheet row i+1.                                       *)
C8_WrapperRecord ==
    (Projected /\ Len(sheet) >= 1) =>
      /\ DOMAIN projected = {"data", "totalRows", "totalColumns"}
      /\ projected.totalRows = Len(sheet) - 1
      /\ projected.totalColumns = Len(sheet[1])
      /\ DOMAIN projected.data = 1..(Len(sheet) - 1)
      /\ \A i \in DataRows : projected.data[i] = RowObjectOf(i)

C8_Witness ==
    /\ Projected
    /\ Len(sheet) = 3
    /\ Len(sheet[1]) = 1
    /\ sheet[2] = <<CellZero>>
    /\ sheet[3] = <<CellA>>
    /\ projected.totalRows = 2
    /\ projected.data[1] # projected.data[2]

(* C9 as stated: every row-object has exactly as many keys as there are       *)
(* header cells (totalColumns), whatever the header row.                      *)
C9_AsStated ==
    (Projected /\ Len(sheet) >= 1) =>
      \A i \in DataRows : Cardinality(DOMAIN projected.data[i]) = projected.totalColumns

(* C9 amended: every row-object has exactly as many keys as there are         *)
(* distinct trimmed header strings; that is totalColumns when no two headers  *)
(* collide after trimming, and less otherwise.                                *)
C9_KeyCount ==
    (Projected /\ Len(sheet) >= 1) =>
      \A i \in DataRows :
        /\ Cardinality(DOMAIN projected.data[i])
             = Cardinality({HeaderOf(col) : col \in HeaderCols})
        /\ (\A col \in HeaderCols : LastOfItsName(col))
             => Cardinality(DOMAIN projected.data[i]) = projected.totalColumns
        /\ (\E col \in HeaderCols : ~LastOfItsName(col))
             => Cardinality(DOMAIN projected.data[i]) < projected.totalColumns

C9_Witness ==
    /\ Projected
    /\ Len(sheet) = 2
    /\ sheet[1] = <<CellA, CellZero>>
    /\ Len(sheet[2]) = 1
    /\ Cardinality(DOMAIN projected.data[1]) = 2

(* C10 as stated: for every data row and every column col below the header    *)
(* count, the value under header[col] is the row's cell at col, or null when   *)
(* that cell is missing or empty.                                              *)
C10_AsStated ==
    (Projected /\ Len(sheet) >= 1) =>
      \A i \in DataRows : \A col \in HeaderCols :
        projected.data[i][HeaderOf(col)] = CellOrNull(i, col)

(* C10 amended: that holds for every column whose trimmed header string is     *)
(* not repeated at a later column; present values, 0, false and the empty      *)
(* string among them, are stored unchanged in value and type.                  *)
C10_CellValues ==
    (Projected /\ Len(sheet) >= 1) =>
      \A i \in DataRows : \A col \in HeaderCols :
        LastOfItsName(col) =>
          /\ projected.data[i][HeaderOf(col)] = CellOrNull(i, col)
          /\ (col + 1 \in DOMAIN sheet[i + 1] /\ sheet[i + 1][col + 1] # CellNull)
               => projected.data[i][HeaderOf(col)] = sheet[i + 1][col + 1]

C10_Witness ==
    /\ Projected
    /\ Len(sheet) = 2
    /\ sheet[1] = <<CellA>>
    /\ sheet[2] = <<CellFalse, CellZero>>
    /\ projected.data[1][StrA] = CellFalse

-----------------------------------------------------------------------------
(* Header strings and rows wider than the header row *)

\* the string each cell value has as a header: its text, trimmed
HeaderText(cell) ==
    CASE cell = CellA -> <<"a">>
      [] cell = CellSpA -> <<"a">>
      [] cell = CellEmptyStr -> <<>>
      [] cell = CellZero -> <<"0">>
      [] cell = CellFalse -> <<"f", "a", "l", "s", "e">>
      [] cell = CellNull -> <<"n", "u", "l", "l">>

\* the columns whose header cell gives the string k
ColumnsNamed(k) == {col \in HeaderCols : HeaderText(sheet[1][col + 1]) = k}

\* the largest member of a finite non-empty set of numbers
Highest(S) == CHOOSE m \in S : \A n \in S : n <= m

(* C11: each header is the string of its row-0 cell, trimmed; when several    *)
(* header cells give the same string, every row-object holds one entry for    *)
(* it, whose value is the cell of the highest-indexed of those columns (null  *)
(* when that cell is missing or empty); totalColumns still counts every       *)
(* header cell.                                                               *)
C11_LastWriteWins ==
    (Projected /\ Len(sheet) >= 1) =>
      /\ projected.totalColumns = Len(sheet[1])
      /\ \A i \in DataRows :
           /\ DOMAIN projected.data[i] = {HeaderText(sheet[1][col + 1]) : col \in HeaderCols}
           /\ \A k \in DOMAIN projected.data[i] :
                projected.data[i][k] = CellOrNull(i, Highest(ColumnsNamed(k)))

C11_Witness ==
    /\ Projected
    /\ sheet = <<<<CellA, CellSpA>>, <<CellZero, CellFalse>>>>
    /\ DOMAIN projected.data[1] = {StrA}
    /\ projected.data[1][StrA] = CellFalse
    /\ projected.totalColumns = 2

\* the data rows with more cells than the header row
WiderRows == {i \in DataRows : Len(sheet[i + 1]) > HeaderCount}

(* C16: a data row with more cells than the header row is cut to the header   *)
(* width: its row-object has the header strings as keys and nothing else,     *)
(* every value comes from a column below the header count, and totalColumns   *)
(* is the header count.                                                       *)
C16_WiderRowTruncated ==
    (Projected /\ Len(sheet) >= 1) =>
      \A i \in WiderRows :
        /\ projected.totalColumns = HeaderCount
        /\ DOMAIN projected.data[i] = {HeaderOf(col) : col \in HeaderCols}
        /\ Cardinality(DOMAIN projected.data[i]) <= HeaderCount
        /\ \A k \in DOMAIN projected.data[i] :
             \E col \in HeaderCols : k = HeaderOf(col) /\ projected.data[i][k] = CellOrNull(i, col)

C16_Witness ==
    /\ Projected
    /\ sheet = <<<<CellA>>, <<CellZero, CellFalse, CellSpA>>>>
    /\ projected.data[1] = (StrA :> CellZero)
    /\ projected.totalColumns = 1

-----------------------------------------------------------------------------
(* C12: when the decoder gives a sheet with zero rows the request succeeds    *)
(* with status 200, and the JSON body is the empty object {} (no data,        *)
(* totalRows or totalColumns field) in rows-as-objects mode and the empty     *)
(* array [] in rows-as-arrays mode.                                           *)
C12_EmptySheet ==
    (Done /\ decoded = <<<<>>>>) =>
      /\ escaped = ""
      /\ responses = 1
      /\ response.status = 200
      /\ Len(response.json) = 1
      /\ variant = "objects" =>
           /\ response.json[1].type = "object"
           /\ DOMAIN response.json[1].value = {}
      /\ variant \in {"arrays", "single"} =>
           /\ response.json[1].type = "array"
           /\ Len(response.json[1].value) = 0

C12_Witness ==
    /\ Done
    /\ variant = "objects"
    /\ decoded = <<<<>>>>
    /\ response.status = 200
    /\ response.json = <<ObjectJson(EmptyObject)>>

-----------------------------------------------------------------------------
(* Requests side by side *)

CallDone(i) == inflight[i].pc = "done"

AcceptedBy(v) == IF v = "single" THEN {XLSX_MIME_TYPE} ELSE {XLSX_MIME_TYPE, XLS_MIME_TYPE}

\* two requests agree on method, file presence, file size, acceptance of the
\* declared type and decoded sheet
Agree(i, j) ==
    LET r == inflight[i].request
        q == inflight[j].request
    IN /\ r.method = q.method
       /\ (r.body = "file") = (q.body = "file")
       /\ r.size = q.size
       /\ (r.type \in AcceptedBy(deployed)) = (q.type \in AcceptedBy(deployed))
       /\ inflight[i].decoded = inflight[j].decoded

\* they agree as well on whether the body is a form request.formData() can parse
AgreeOnForm(i, j) ==
    (inflight[i].request.body = "noForm") = (inflight[j].request.body = "noForm")

SameStatusAndBody(i, j) ==
    /\ inflight[i].responses = inflight[j].responses
    /\ inflight[i].response.status = inflight[j].response.status
    /\ inflight[i].response.body = inflight[j].response.body
    /\ inflight[i].response.json = inflight[j].response.json

DiagnosticHeaders == {"X-Processing-Time", "X-File-Type"}

DiagnosticsOnlyOnSuccess ==
    \A i \in Calls :
      DOMAIN inflight[i].response.headers \cap DiagnosticHeaders # {}
        => inflight[i].response.status = 200

(* C14: two requests that agree on method, file presence, file size,          *)
(* acceptance of the declared type and decoded sheet get the same status and  *)
(* the same body, whatever the processing time measured for each, and the     *)
(* diagnostic headers are on success responses only.                          *)
C14_SameStatusAndBody ==
    /\ \A i, j \in Calls : (CallDone(i) /\ CallDone(j) /\ Agree(i, j)) => SameStatusAndBody(i, j)
    /\ DiagnosticsOnlyOnSuccess

\* C14 for the pairs that also agree on whether their body is a form at all
C14_AmongParsedForms ==
    /\ \A i, j \in Calls :
         (CallDone(i) /\ CallDone(j) /\ Agree(i, j) /\ AgreeOnForm(i, j)) => SameStatusAndBody(i, j)
    /\ DiagnosticsOnlyOnSuccess

\* the Response a request gets from a call of fetch on its own, the decoder
\* giving it what it gave this call (NoResponse when the exception leaves fetch)
AloneResponse(v, s) ==
    LET failed == IF HasCatch(v) THEN ErrorResponse(v) ELSE NoResponse
    IN IF s.request.method # "POST" THEN MethodRejection(v)
       ELSE IF s.request.body = "noForm" THEN failed
       ELSE IF ~Validate(v, s.request).passed THEN Validate(v, s.request).response
       ELSE IF s.decoded = <<>> THEN failed
       ELSE Success(v, s.request, s.decoded[1], "0.00ms")

(* C15: with several requests in flight and their suspension points           *)
(* interleaved in any order, the status and body each request gets are those  *)
(* it would get on its own.                                                   *)
C15_Independent ==
    \A i \in Calls :
      CallDone(i) =>
        /\ inflight[i].response.status = AloneResponse(deployed, inflight[i]).status
        /\ inflight[i].response.body = AloneResponse(deployed, inflight[i]).body
        /\ inflight[i].response.json = AloneResponse(deployed, inflight[i]).json
        /\ inflight[i].responses <= 1
        /\ (inflight[i].escaped # "") = (inflight[i].raised # "" /\ ~HasCatch(deployed))

C15_Witness ==
    /\ inflight[1].pc = "awaitArrayBuffer"
    /\ inflight[1].request.type = XLSX_MIME_TYPE
    /\ CallDone(2)
    /\ inflight[2].request.type = "text/plain"
    /\ inflight[2].request.size = 6 * 1024 * 1024
    /\ inflight[2].response.status = 413

====
